---- MODULE Spec2Model ----
(***************************************************************************)
(* Payment state tracking of breez/payments-rest-api: the SdkListener      *)
(* tracker and the PaymentHandler facade of src/nodeless.py, and the sync  *)
(* watchdog of src/fly/main.py.                                            *)
(*                                                                         *)
(* Python values: None is the string "None"; a dict is a function whose    *)
(* domain is its key set; a list is a sequence.  An attribute that an      *)
(* object does not have is NoAttr.                                         *)
(***************************************************************************)
EXTENDS Integers, Sequences, FiniteSets, TLC

VARIABLES
    listener,   \* the SdkListener object most recently created by the handler
    handler,    \* PaymentHandler: instance, listener reference, _initialized
    pending,    \* position of the request thread inside the call it is running
    now,        \* int(time.time())
    last,       \* the last completed operation, its arguments and its result
    watchdog,   \* the globals and locals of periodic_sync_check
    engine,     \* the payment engine: its connections opened by PaymentHandler
    callback,   \* position of the engine's callback thread inside on_event
    webhook     \* the sent-cache of src/fly/main.py, its senders, the receiver

vars == <<listener, handler, pending, now, last, watchdog, engine, callback, webhook>>

---------------------------------------------------------------------------
(* Bounds *)

MaxTime == 2
MaxFailures == 15
MaxConnections == 3
MaxWatchdogTime == 50
MaxDeliveries == 2
MaxPayments == 2

---------------------------------------------------------------------------
(* Python values *)

None == "None"
NoAttr == "<no attribute>"
Truthy(x) == x # None /\ x # "" /\ x # NoAttr

EmptyDict == [k \in {} |-> None]
Put(d, k, v) == [x \in DOMAIN d \cup {k} |-> IF x = k THEN v ELSE d[x]]
Del(d, k) == [x \in DOMAIN d \ {k} |-> d[x]]
Get(d, k) == IF k \in DOMAIN d THEN d[k] ELSE None

InList(x, s) == \E i \in 1..Len(s) : s[i] = x
Count(x, s) == Cardinality({i \in 1..Len(s) : s[i] = x})

\* list.remove(x): removes the first occurrence only
RECURSIVE ListRemove(_, _)
ListRemove(s, x) ==
    IF s = <<>> THEN <<>>
    ELSE IF Head(s) = x THEN Tail(s)
    ELSE <<Head(s)>> \o ListRemove(Tail(s), x)

Min(a, b) == IF a <= b THEN a ELSE b

---------------------------------------------------------------------------
(* Inputs *)

Ids == {"a", "b"}

\* the details payload of an event, or no details at all
NoDetails == [none |-> TRUE]
ErrorAttrs == {NoAttr, "", "swap expired"}
DetailsOf(payment_hash, destination, swap_id, error) ==
    [payment_hash |-> payment_hash, destination |-> destination,
     swap_id |-> swap_id, error |-> error]
Event(kind, details) == [kind |-> kind, details |-> details]

\* events of payment "a": its payment hash, with a destination beside it
EventsA ==
    {Event(k, DetailsOf("a", "b", "", NoAttr)) :
        k \in {"PAYMENT_PENDING", "PAYMENT_WAITING_CONFIRMATION", "PAYMENT_SUCCEEDED"}}
    \cup {Event("PAYMENT_FAILED", DetailsOf("a", "b", "", e)) : e \in ErrorAttrs}
\* events of payment "b", the other payment: no payment hash, its destination,
\* with a swap id beside it
EventsB ==
    {Event(k, DetailsOf("", "b", "a", NoAttr)) :
        k \in {"PAYMENT_WAITING_FEE_ACCEPTANCE", "PAYMENT_SUCCEEDED"}}
\* events that name no payment
EventsNone ==
    {Event("PAYMENT_SUCCEEDED", NoDetails),
     Event("PAYMENT_FAILED", DetailsOf("", "", "", "swap expired"))}
Synced == Event("SYNCED", NoDetails)

Events == EventsA \cup EventsB \cup EventsNone

\* self.instance.get_payment raises ("raise"), returns None, or returns a
\* payment; these are the texts that str(payment.status) gives for a payment
EngineStatuses == {"PENDING", "SUCCEEDED", "FAILED"}
\* the identifiers that are asked about: payment "a", and the empty string
CheckIds == {"a", ""}
\* the outcomes of the lookup by payment hash and of the lookup by swap id
CheckOutcomes ==
    {<<"raise", "raise">>, <<None, None>>, <<"SUCCEEDED", None>>,
     <<"raise", "FAILED">>, <<None, "PENDING">>, <<"PENDING", "SUCCEEDED">>}

MaxAges == {0, 1}

---------------------------------------------------------------------------
(* SdkListener *)

SdkListenerInit ==
    [synced |-> FALSE, paid |-> <<>>, refunded |-> <<>>,
     payment_statuses |-> EmptyDict, payment_errors |-> EmptyDict,
     payment_timestamps |-> EmptyDict, payment_details |-> EmptyDict]

\* a status write that stamps every record
WriteStatusStampAll(L, identifier, status, t) ==
    [L EXCEPT !.payment_statuses = Put(@, identifier, status),
              !.payment_timestamps = [i \in DOMAIN @ \cup {identifier} |-> t]]

\* a status write that does not let a SUCCEEDED payment regress
WriteStatusGuarded(L, identifier, status, t) ==
    IF Get(L.payment_statuses, identifier) = "SUCCEEDED" THEN L
    ELSE [L EXCEPT !.payment_statuses = Put(@, identifier, status),
                   !.payment_timestamps = Put(@, identifier, t)]

\* lines 85-87: status and timestamp
WriteStatus(L, identifier, status, t) ==
    [L EXCEPT !.payment_statuses = Put(@, identifier, status),
              !.payment_timestamps = Put(@, identifier, t)]

\* lines 89-91: cache the details when given
CacheDetails(L, identifier, details) ==
    IF details # NoDetails
    THEN [L EXCEPT !.payment_details = Put(@, identifier, details)]
    ELSE L

\* lines 93-97: store a non-empty error; drop the stored one on a status
\* other than FAILED
TrackError(L, identifier, status, error) ==
    IF Truthy(error)
    THEN [L EXCEPT !.payment_errors = Put(@, identifier, error)]
    ELSE IF status # "FAILED" /\ identifier \in DOMAIN L.payment_errors
    THEN [L EXCEPT !.payment_errors = Del(@, identifier)]
    ELSE L

\* a paid list that forgets the identifier when the payment fails
UpdatePaidListEvicting(L, identifier, status) ==
    IF status \in {"WAITING_CONFIRMATION", "SUCCEEDED"} /\ ~InList(identifier, L.paid)
    THEN [L EXCEPT !.paid = Append(@, identifier)]
    ELSE IF status = "FAILED"
    THEN [L EXCEPT !.paid = ListRemove(@, identifier)]
    ELSE L

\* a paid list that appends without the membership test
UpdatePaidListNoTest(L, identifier, status) ==
    IF status \in {"WAITING_CONFIRMATION", "SUCCEEDED"}
    THEN [L EXCEPT !.paid = Append(@, identifier)]
    ELSE L

\* lines 99-103: the paid list
UpdatePaidList(L, identifier, status) ==
    IF status \in {"WAITING_CONFIRMATION", "SUCCEEDED"} /\ ~InList(identifier, L.paid)
    THEN [L EXCEPT !.paid = Append(@, identifier)]
    ELSE L

_update_payment_state(L, identifier, status, details, error, t) ==
    IF ~Truthy(identifier) THEN L
    ELSE UpdatePaidList(
            TrackError(
                CacheDetails(WriteStatus(L, identifier, status, t), identifier, details),
                identifier, status, error),
            identifier, status)

\* a resolution that prefers the destination to the payment hash
ResolveIdentifierDestinationFirst(details) ==
    IF Truthy(details.destination) THEN details.destination
    ELSE IF Truthy(details.payment_hash) THEN details.payment_hash
    ELSE IF Truthy(details.swap_id) THEN details.swap_id
    ELSE None

\* the first non-empty of payment_hash, destination, swap_id
ResolveIdentifier(details) ==
    IF Truthy(details.payment_hash) THEN details.payment_hash
    ELSE IF Truthy(details.destination) THEN details.destination
    ELSE IF Truthy(details.swap_id) THEN details.swap_id
    ELSE None

\* getattr(details, 'error', 'Unknown error')
EventError(details) ==
    IF details.error = NoAttr THEN "Unknown error" ELSE details.error

EventStatus(kind) ==
    CASE kind = "PAYMENT_PENDING" -> "PENDING"
      [] kind = "PAYMENT_WAITING_CONFIRMATION" -> "WAITING_CONFIRMATION"
      [] kind = "PAYMENT_SUCCEEDED" -> "SUCCEEDED"
      [] kind = "PAYMENT_FAILED" -> "FAILED"
      [] kind = "PAYMENT_WAITING_FEE_ACCEPTANCE" -> "WAITING_FEE_ACCEPTANCE"

\* a listener that takes every other event as the end of the sync
on_event_listenerUnsyncs(L, event, t) ==
    [L EXCEPT !.synced = event.kind = "SYNCED"]

on_event_listener(L, event, t) ==
    IF event.kind = "SYNCED" THEN [L EXCEPT !.synced = TRUE]
    ELSE IF event.details = NoDetails THEN L
    ELSE
      LET identifier == ResolveIdentifier(event.details) IN
      IF ~Truthy(identifier) THEN L
      ELSE IF event.kind = "PAYMENT_FAILED"
      THEN _update_payment_state(L, identifier, "FAILED", event.details,
                                 EventError(event.details), t)
      ELSE _update_payment_state(L, identifier, EventStatus(event.kind),
                                 event.details, None, t)

is_paid(L, destination) ==
    \/ InList(destination, L.paid)
    \/ Get(L.payment_statuses, destination) \in {"WAITING_CONFIRMATION", "SUCCEEDED"}

get_payment_status(L, identifier) == Get(L.payment_statuses, identifier)
get_payment_error(L, identifier) == Get(L.payment_errors, identifier)
get_payment_timestamp(L, identifier) == Get(L.payment_timestamps, identifier)

old_identifiers(L, max_age_seconds, t) ==
    {i \in DOMAIN L.payment_timestamps : t - L.payment_timestamps[i] > max_age_seconds}

\* the body of the loop of clear_old_data for one identifier
ClearOne(L, identifier) ==
    [L EXCEPT !.payment_statuses = Del(@, identifier),
              !.payment_errors = Del(@, identifier),
              !.payment_timestamps = Del(@, identifier),
              !.payment_details = Del(@, identifier),
              !.paid = ListRemove(@, identifier),
              !.refunded = ListRemove(@, identifier)]

RECURSIVE ClearAll(_, _)
ClearAll(L, S) ==
    IF S = {} THEN L
    ELSE LET i == CHOOSE x \in S : TRUE IN ClearAll(ClearOne(L, i), S \ {i})

clear_old_data_listener(L, max_age_seconds, t) ==
    ClearAll(L, old_identifiers(L, max_age_seconds, t))

\* a cleanup that resets the sync flag only
cleanupSyncFlagOnly(L) == [L EXCEPT !.synced = FALSE]

cleanup(L) == SdkListenerInit

---------------------------------------------------------------------------
(* PaymentHandler *)

PaymentHandlerInit == [instance |-> "sdk", listener |-> "listener", initialized |-> TRUE]

Returned(status, payment_details, error) ==
    [raised |-> None, status |-> status, payment_details |-> payment_details,
     error |-> error]
Raised(exception) ==
    [raised |-> exception, status |-> None, payment_details |-> None, error |-> None]

\* self.instance.get_payment(...) inside its own try/except: an engine error and
\* the AttributeError of a None instance are both swallowed there
Lookup(H, outcome) == IF H.instance = None THEN "raise" ELSE outcome

\* lines 1550-1557 and 1574-1581
FreshResult(status) ==
    Returned(status, "payment", IF status = "FAILED" THEN "Payment failed" ELSE None)

\* a fallback that consults the cached status before the paid list
FallbackResultCachedFirst(L, payment_identifier) ==
    LET cached_status == Get(L.payment_statuses, payment_identifier) IN
    IF Truthy(cached_status)
    THEN Returned(cached_status, None,
                  IF cached_status = "FAILED" THEN "Payment failed" ELSE None)
    ELSE IF InList(payment_identifier, L.paid)
    THEN Returned("SUCCEEDED", None, None)
    ELSE Returned("UNKNOWN", None, "Payment not found")

\* lines 1585-1620: paid list, then cached status, then UNKNOWN
FallbackResult(L, payment_identifier) ==
    IF InList(payment_identifier, L.paid)
    THEN Returned("SUCCEEDED", None, None)
    ELSE LET cached_status == get_payment_status(L, payment_identifier) IN
         IF Truthy(cached_status)
         THEN Returned(cached_status, None,
                       IF cached_status = "FAILED" THEN "Payment failed" ELSE None)
         ELSE Returned("UNKNOWN", None, "Payment not found")

\* a lookup order that asks by swap id first
FreshStatusSwapFirst(h, s) ==
    IF s \in EngineStatuses THEN s
    ELSE IF h \in EngineStatuses THEN h ELSE None

\* lines 1538-1583: the status of the payment that the lookup by payment hash
\* returns, else of the one that the lookup by swap id returns, else None
FreshStatus(h, s) ==
    IF h \in EngineStatuses THEN h
    ELSE IF s \in EngineStatuses THEN s ELSE None

\* the requests that reach the engine: the second lookup is made only when
\* the first one did not return from inside its try block
EngineLookups(H, h) ==
    IF H.instance = None THEN <<>>
    ELSE IF h \in EngineStatuses THEN <<"PAYMENT_HASH">>
    ELSE <<"PAYMENT_HASH", "SWAP_ID">>

\* The call up to the membership test of line 1546/1570.  append says that the
\* test found the identifier missing from paid, so that the append of line
\* 1547/1571 is still to come.
check_payment_status(H, L, payment_identifier, hashOutcome, swapOutcome) ==
    IF ~Truthy(payment_identifier)
    THEN [listener |-> L, ret |-> Raised("ValueError"), append |-> FALSE,
          lookups |-> <<>>]
    ELSE
      LET h == Lookup(H, hashOutcome)
          s == Lookup(H, swapOutcome)
          status == FreshStatus(h, s)
          lookups == EngineLookups(H, h)
      IN IF status # None /\ H.listener # None
         THEN [listener |-> [L EXCEPT !.payment_statuses =
                                         Put(@, payment_identifier, status)],
               ret |-> FreshResult(status),
               append |-> /\ status \in {"WAITING_CONFIRMATION", "SUCCEEDED"}
                          /\ ~InList(payment_identifier, L.paid),
               lookups |-> lookups]
         ELSE IF H.listener = None
         THEN [listener |-> L, ret |-> Raised("AttributeError"), append |-> FALSE,
               lookups |-> lookups]
         ELSE [listener |-> L, ret |-> FallbackResult(L, payment_identifier),
               append |-> FALSE, lookups |-> lookups]

\* what self.instance.disconnect() of the engine does
DisconnectOutcomes ==
    {"disconnected", "raises after disconnecting", "raises without disconnecting"}
EngineDisconnectRaises(H, outcome) == Truthy(H.instance) /\ outcome # "disconnected"

\* lines 356-383, the try block of disconnect(): the handler when the block
\* is left, and the exception that left it
disconnect_try(H, outcome) ==
    IF EngineDisconnectRaises(H, outcome)
    THEN [handler |-> H, raised |-> "Exception"]
    ELSE [handler |-> [instance |-> None, listener |-> None, initialized |-> FALSE],
          raised |-> None]

\* lines 385-397, the except block: the references are cleared all the same
disconnect_except(H) == [instance |-> None, listener |-> None, initialized |-> FALSE]

\* a disconnect that lets the engine's exception out
disconnect_handlerNoExcept(H, outcome) == disconnect_try(H, outcome)

\* disconnect(): the handler it leaves and the exception it raises, if any
disconnect_handler(H, outcome) ==
    LET t == disconnect_try(H, outcome) IN
    IF t.raised # None
    THEN [handler |-> disconnect_except(t.handler), raised |-> None]
    ELSE t

\* the engine after self.instance.disconnect()
engine_disconnect(E, H, outcome) ==
    IF Truthy(H.instance) /\ outcome # "raises without disconnecting"
    THEN [E EXCEPT !.live = @ - 1]
    ELSE E

\* what __init__ meets: the connection is made and the listener registered;
\* a credential is missing or connect() raises; connect() returns and
\* add_event_listener raises
ConstructOutcomes == {"connected", "connect raises", "add_event_listener raises"}

\* lines 259-311 of __init__ on a handler that is not _initialized
construct_handler(H, outcome) ==
    CASE outcome = "connected" ->
            [handler |-> PaymentHandlerInit, raised |-> None]
      [] outcome = "connect raises" ->
            [handler |-> H, raised |-> "Exception"]
      [] outcome = "add_event_listener raises" ->
            [handler |-> [PaymentHandlerInit EXCEPT !.initialized = FALSE],
             raised |-> "Exception"]

\* the engine after connect(connect_request)
engine_connect(E, outcome) ==
    IF outcome = "connect raises" THEN E ELSE [E EXCEPT !.live = @ + 1]

---------------------------------------------------------------------------
(* State *)

Idle == [pc |-> "idle"]
\* _consecutive_sync_failures and _last_sync_time of src/fly/main.py, and
\* the task _sync_task that lifespan has created
WatchdogInit ==
    [consecutive_sync_failures |-> 0, last_sync_time |-> 0, task |-> "running"]
\* the engine holds the connection that the construction opened
EngineInit == [live |-> 1]
CallbackInit == [pc |-> "idle"]
\* _webhook_sent_cache; the coroutines inside send_webhook_notification; the
\* notifications that the receiver has answered with 200
WebhookInit ==
    [sent_cache |-> EmptyDict,
     senders |-> [s \in {"watchdog", "request"} |-> Idle],
     deliveries |-> <<>>]

Init ==
    /\ listener = SdkListenerInit
    /\ handler = PaymentHandlerInit
    /\ pending = Idle
    /\ now = 0
    /\ last = [op |-> "init"]
    /\ watchdog = WatchdogInit
    /\ engine = EngineInit
    /\ callback = CallbackInit
    /\ webhook = WebhookInit

---------------------------------------------------------------------------
(* Operations *)

\* the engine's callback thread delivers an event to the registered listener
on_event(event) ==
    /\ handler.initialized
    /\ handler.instance # None
    /\ handler.listener # None
    /\ callback = CallbackInit
    /\ listener' = on_event_listener(listener, event, now)
    /\ last' = [op |-> "on_event", event |-> event,
                repeated |-> last.op = "on_event" /\ last.event = event]
    /\ UNCHANGED <<handler, pending, now, watchdog, engine, callback, webhook>>

\* a request thread runs check_payment_status up to its return, or up to the
\* point between the membership test and the append
CheckPaymentStatus(payment_identifier, hashOutcome, swapOutcome) ==
    /\ pending = Idle
    /\ LET r == check_payment_status(handler, listener, payment_identifier,
                                     hashOutcome, swapOutcome)
           call == [id |-> payment_identifier,
                    found |-> \/ Lookup(handler, hashOutcome) \in EngineStatuses
                              \/ Lookup(handler, swapOutcome) \in EngineStatuses,
                    ret |-> r.ret, lookups |-> r.lookups]
       IN /\ listener' = r.listener
          /\ IF r.append
             THEN /\ pending' = [pc |-> "append"] @@ call
                  /\ last' = [op |-> "check_payment_status_running"]
             ELSE /\ pending' = Idle
                  /\ last' = [op |-> "check_payment_status"] @@ call
    /\ UNCHANGED <<handler, now, watchdog, engine, callback, webhook>>

\* line 1547/1571 and the return
CheckPaymentStatusAppend ==
    /\ pending.pc = "append"
    /\ listener' = [listener EXCEPT !.paid = Append(@, pending.id)]
    /\ last' = [op |-> "check_payment_status", id |-> pending.id,
                found |-> pending.found, ret |-> pending.ret,
                lookups |-> pending.lookups]
    /\ pending' = Idle
    /\ UNCHANGED <<handler, now, watchdog, engine, callback, webhook>>

clear_old_data(max_age_seconds) ==
    /\ handler.listener # None
    /\ listener' = clear_old_data_listener(listener, max_age_seconds, now)
    /\ last' = [op |-> "clear_old_data", max_age |-> max_age_seconds]
    /\ UNCHANGED <<handler, pending, now, watchdog, engine, callback, webhook>>

disconnect(outcome) ==
    /\ pending = Idle
    /\ callback = CallbackInit
    /\ LET r == disconnect_handler(handler, outcome) IN
       /\ listener' = IF Truthy(handler.listener) THEN cleanup(listener) ELSE listener
       /\ handler' = r.handler
       /\ engine' = engine_disconnect(engine, handler, outcome)
       /\ last' = [op |-> "disconnect", raised |-> r.raised,
                   engine_raised |-> EngineDisconnectRaises(handler, outcome),
                   before |-> handler]
    /\ UNCHANGED <<pending, now, watchdog, callback, webhook>>

\* PaymentHandler(): __new__ returns the singleton, __init__ returns at once
\* when _initialized, and otherwise connects, creates the listener, registers
\* it and waits (reading only) for the first sync; a missing credential or a
\* failing connect raises and leaves the handler as it was, a failure after
\* connect() leaves the new connection in self.instance
PaymentHandler(outcome) ==
    /\ pending = Idle
    /\ callback = CallbackInit
    /\ IF handler.initialized
       THEN /\ UNCHANGED <<handler, listener, engine>>
            /\ last' = [op |-> "PaymentHandler", raised |-> FALSE, connected |-> FALSE]
       ELSE LET r == construct_handler(handler, outcome) IN
            /\ outcome # "connect raises" => engine.live < MaxConnections
            /\ handler' = r.handler
            /\ listener' = IF outcome = "connect raises" THEN listener
                           ELSE SdkListenerInit
            /\ engine' = engine_connect(engine, outcome)
            /\ last' = [op |-> "PaymentHandler", raised |-> r.raised # None,
                        connected |-> outcome # "connect raises"]
    /\ UNCHANGED <<pending, now, watchdog, callback, webhook>>

Tick ==
    /\ pending.pc # "append"
    /\ now < MaxTime
    /\ now' = now + 1
    /\ UNCHANGED <<listener, handler, pending, last, watchdog, engine, callback, webhook>>

Next ==
    \/ \E event \in Events : on_event(event)
    \/ \E i \in CheckIds, o \in CheckOutcomes : CheckPaymentStatus(i, o[1], o[2])
    \/ CheckPaymentStatusAppend
    \/ \E m \in MaxAges : clear_old_data(m)
    \/ \E d \in {"disconnected", "raises after disconnecting"} : disconnect(d)
    \/ \E c \in {"connected", "connect raises"} : PaymentHandler(c)
    \/ Tick

Spec == Init /\ [][Next]_vars

---------------------------------------------------------------------------
(* The tracker: claims C1-C4, C8-C10, under Spec *)

Checked == last.op = "check_payment_status"
\* check_payment_status of a valid identifier has returned or raised after
\* both engine lookups failed
LookupsFailed == Checked /\ Truthy(last.id) /\ ~last.found

\* C1: in every state between operations, an identifier has a stored
\* non-empty error if and only if its tracked status is FAILED.
C1_ErrorIffFailed ==
    pending = Idle =>
        \A i \in Ids :
            Truthy(get_payment_error(listener, i))
                <=> get_payment_status(listener, i) = "FAILED"

\* an identifier leaves the paid answer only by expiry or by cleanup
Expires(i) ==
    /\ last'.op = "clear_old_data"
    /\ i \in old_identifiers(listener, last'.max_age, now)

\* C2: once an identifier is in the paid list, where an event that sets
\* SUCCEEDED or WAITING_CONFIRMATION puts it, is_paid(identifier) is true
\* after every later step, whatever events arrive, until clear_old_data
\* expires the identifier or the listener is cleaned up by disconnect.
C2_PaidMonotonic ==
    [][\A i \in Ids :
          (InList(i, listener.paid) /\ ~is_paid(listener', i))
              => (Expires(i) \/ last'.op = "disconnect")]_vars

\* a FAILED event has arrived for a paid identifier, which is still paid
C2_Witness ==
    /\ last.op = "on_event"
    /\ last.event \in EventsA
    /\ last.event.kind = "PAYMENT_FAILED"
    /\ get_payment_status(listener, "a") = "FAILED"
    /\ is_paid(listener, "a")

\* C3: when both engine lookups fail and the handler has a tracker, the
\* result is SUCCEEDED with null details if the identifier is in the paid
\* list (whatever status is cached, or none), otherwise the cached status if
\* there is one, otherwise UNKNOWN with the not-found error.
C3_FallbackChain ==
    (LookupsFailed /\ handler.listener # None) =>
        /\ last.ret.raised = None
        /\ last.ret.payment_details = None
        /\ IF InList(last.id, listener.paid)
           THEN last.ret.status = "SUCCEEDED" /\ last.ret.error = None
           ELSE IF last.id \in DOMAIN listener.payment_statuses
           THEN last.ret.status = listener.payment_statuses[last.id]
           ELSE last.ret.status = "UNKNOWN" /\ last.ret.error = "Payment not found"

\* the paid list outranks a cached FAILED status
C3_Witness ==
    /\ LookupsFailed
    /\ InList(last.id, listener.paid)
    /\ get_payment_status(listener, last.id) = "FAILED"
    /\ last.ret.status = "SUCCEEDED"

\* the paid list answers for an identifier that has no cached status
C3_WitnessNoStatus ==
    /\ LookupsFailed
    /\ InList(last.id, listener.paid)
    /\ last.id \notin DOMAIN listener.payment_statuses
    /\ last.ret.status = "SUCCEEDED"

\* C4: when the tracker holds status FAILED and the error text carried by
\* the PAYMENT_FAILED event, and both engine lookups fail,
\* check_payment_status returns FAILED with that recorded error.
C4_FailedErrorReported ==
    (/\ LookupsFailed
     /\ handler.listener # None
     /\ get_payment_status(listener, last.id) = "FAILED"
     /\ Truthy(get_payment_error(listener, last.id))
     /\ get_payment_error(listener, last.id) \in ErrorAttrs)
        => /\ last.ret.status = "FAILED"
           /\ last.ret.error = get_payment_error(listener, last.id)

Absent(L, i) ==
    /\ i \notin DOMAIN L.payment_statuses
    /\ i \notin DOMAIN L.payment_errors
    /\ i \notin DOMAIN L.payment_timestamps
    /\ i \notin DOMAIN L.payment_details
    /\ ~InList(i, L.paid)
    /\ ~InList(i, L.refunded)

Record(L, i) ==
    <<Get(L.payment_statuses, i), Get(L.payment_errors, i),
      Get(L.payment_timestamps, i), Get(L.payment_details, i),
      Count(i, L.paid), Count(i, L.refunded)>>

\* C8: a step of clear_old_data(max_age) leaves every identifier whose
\* last_updated is older than max_age fully absent from the tracker and
\* every field of every other identifier unchanged.
C8_ExpirySweep ==
    [][(last'.op = "clear_old_data" /\ now' = now) =>
          \A i \in Ids :
              IF i \in old_identifiers(listener, last'.max_age, now)
              THEN Absent(listener', i)
              ELSE Record(listener', i) = Record(listener, i)]_vars

\* C9: delivering the event that was just delivered changes nothing in the
\* tracker but the timestamps, which do not decrease and keep their keys.
C9_Idempotent ==
    [][(/\ last.op = "on_event"
        /\ last'.op = "on_event"
        /\ last'.event = last.event) =>
          /\ listener' = [listener EXCEPT
                            !.payment_timestamps = listener'.payment_timestamps]
          /\ DOMAIN listener'.payment_timestamps = DOMAIN listener.payment_timestamps
          /\ \A i \in DOMAIN listener.payment_timestamps :
                listener'.payment_timestamps[i] >= listener.payment_timestamps[i]]_vars

\* PAYMENT_SUCCEEDED was delivered twice: one paid entry, refreshed timestamp
C9_Witness ==
    /\ last.op = "on_event"
    /\ last.repeated
    /\ last.event \in EventsA
    /\ last.event.kind = "PAYMENT_SUCCEEDED"
    /\ Count("a", listener.paid) = 1
    /\ now > 0
    /\ get_payment_timestamp(listener, "a") = now

\* C10: when neither engine lookup yields a payment and the tracker has no
\* record of the identifier, check_payment_status returns UNKNOWN with the
\* not-found error and does not raise, in every handler state.
C10_NotFoundNeverRaises ==
    (LookupsFailed /\ Absent(listener, last.id)) =>
        /\ last.ret.raised = None
        /\ last.ret.status = "UNKNOWN"
        /\ last.ret.error = "Payment not found"

C12_WitnessSwap ==
    /\ Checked /\ last.found
    /\ last.lookups = <<"PAYMENT_HASH", "SWAP_ID">>
    /\ last.ret.status = "FAILED"
    /\ get_payment_status(listener, last.id) = "FAILED"
    /\ InList(last.id, listener.paid)

\* the last operation was the delivery of a payment event that names
\* payment i: events of EventsA name "a", events of EventsB name "b"
Delivered(i) ==
    /\ last.op = "on_event"
    /\ last.event \in (IF i = "a" THEN EventsA ELSE EventsB)

\* C16: as long as nothing but the clock has acted since the last payment
\* event of an identifier, the tracked status of the identifier is that
\* event's status, whatever the status was before; after PAYMENT_SUCCEEDED
\* the identifier is paid and has no error.
C16_LastEventWins ==
    \A i \in Ids :
        Delivered(i) =>
            /\ get_payment_status(listener, i) =
                   [PAYMENT_PENDING |-> "PENDING",
                    PAYMENT_WAITING_CONFIRMATION |-> "WAITING_CONFIRMATION",
                    PAYMENT_SUCCEEDED |-> "SUCCEEDED",
                    PAYMENT_FAILED |-> "FAILED",
                    PAYMENT_WAITING_FEE_ACCEPTANCE |-> "WAITING_FEE_ACCEPTANCE"
                   ][last.event.kind]
            /\ last.event.kind = "PAYMENT_SUCCEEDED" =>
                   /\ is_paid(listener, i)
                   /\ get_payment_error(listener, i) = None

\* a late PAYMENT_PENDING has taken a paid payment back to PENDING
C16_Witness ==
    /\ Delivered("a")
    /\ last.event.kind = "PAYMENT_PENDING"
    /\ InList("a", listener.paid)
    /\ get_payment_status(listener, "a") = "PENDING"

\* PAYMENT_SUCCEEDED has just arrived at the last clock value
C16_WitnessSucceeded ==
    /\ Delivered("a")
    /\ last.event.kind = "PAYMENT_SUCCEEDED"
    /\ last.repeated = FALSE
    /\ get_payment_status(listener, "a") = "SUCCEEDED"
    /\ get_payment_error(listener, "a") = None
    /\ get_payment_timestamp(listener, "a") = MaxTime

---------------------------------------------------------------------------
(* Identifier resolution: claim C17, under SpecResolve *)

\* Payment events whose details carry every combination of a payment hash
\* "a", a destination "b" and a swap id "c", each present or empty; details
\* that lack the attributes payment_hash and destination; and events
\* without details
ResolveEvents ==
    {Event("PAYMENT_PENDING", DetailsOf(h, d, w, NoAttr)) :
        h \in {"", "a"}, d \in {"", "b"}, w \in {"", "c"}}
    \cup {Event("PAYMENT_SUCCEEDED", DetailsOf("a", "b", "c", NoAttr)),
          Event("PAYMENT_SUCCEEDED", DetailsOf("", "b", "c", NoAttr)),
          Event("PAYMENT_SUCCEEDED", DetailsOf(NoAttr, NoAttr, "c", NoAttr)),
          Event("PAYMENT_SUCCEEDED", DetailsOf(NoAttr, NoAttr, "", NoAttr)),
          Event("PAYMENT_SUCCEEDED", NoDetails), Event("PAYMENT_FAILED", NoDetails)}

NextResolve == \E event \in ResolveEvents : on_event(event)

SpecResolve == Init /\ [][NextResolve]_vars

\* the key that the claim names for the details of ResolveEvents
FirstNonEmpty(details) ==
    IF details = NoDetails THEN None
    ELSE IF details.payment_hash = "a" THEN "a"
    ELSE IF details.destination = "b" THEN "b"
    ELSE IF details.swap_id = "c" THEN "c"
    ELSE None

\* C17: the delivery of a payment event updates the record keyed by the
\* first non-empty of payment_hash, destination, swap_id and the record of
\* no other identifier; an event without details, or whose three fields are
\* all empty, changes no field of the tracker.
C17_IdentifierResolution ==
    [][last'.op = "on_event" =>
          LET key == FirstNonEmpty(last'.event.details) IN
          IF key = None THEN listener' = listener
          ELSE /\ get_payment_status(listener', key) = EventStatus(last'.event.kind)
               /\ Get(listener'.payment_details, key) = last'.event.details
               /\ get_payment_timestamp(listener', key) = now
               /\ last'.event.kind = "PAYMENT_SUCCEEDED" => InList(key, listener'.paid)
               /\ listener'.synced = listener.synced
               /\ \A other \in {"a", "b", "c"} \ {key} :
                      Record(listener', other) = Record(listener, other)]_vars

\* an event without payment hash and destination went to its swap id
C17_Witness ==
    /\ last.op = "on_event"
    /\ last.event.details # NoDetails
    /\ last.event.details.payment_hash = NoAttr
    /\ last.event.details.destination = NoAttr
    /\ last.event.details.swap_id = "c"
    /\ get_payment_status(listener, "c") = EventStatus(last.event.kind)
    /\ "a" \in DOMAIN listener.payment_statuses
    /\ "b" \in DOMAIN listener.payment_statuses

\* an event whose three fields are empty was dropped by a tracker with records
C17_WitnessDropped ==
    /\ last.op = "on_event"
    /\ last.event.details # NoDetails
    /\ FirstNonEmpty(last.event.details) = None
    /\ DOMAIN listener.payment_statuses = {"a", "b", "c"}

---------------------------------------------------------------------------
(* Frame and timestamps: claim C18, under SpecFrame *)

\* lines 159-189: a request thread calls the read accessors of the listener
read_accessors(identifier) ==
    /\ handler.listener # None
    /\ last' = [op |-> "read", identifier |-> identifier,
                is_paid |-> is_paid(listener, identifier),
                status |-> get_payment_status(listener, identifier),
                error |-> get_payment_error(listener, identifier),
                timestamp |-> get_payment_timestamp(listener, identifier),
                stamped |-> identifier \in DOMAIN listener.payment_timestamps,
                callback |-> callback]
    /\ UNCHANGED <<listener, handler, pending, now, watchdog, engine, callback, webhook>>

FrameEvents ==
    {Event(k, DetailsOf("a", "b", "", NoAttr)) : k \in {"PAYMENT_PENDING", "PAYMENT_SUCCEEDED"}}
    \cup {Event("PAYMENT_FAILED", DetailsOf("a", "b", "", "swap expired"))}
    \cup EventsB \cup EventsNone \cup {Synced}

NextFrame ==
    \/ \E event \in FrameEvents : on_event(event)
    \/ \E o \in {<<"SUCCEEDED", None>>, <<"raise", "FAILED">>, <<None, None>>} :
          CheckPaymentStatus("a", o[1], o[2])
    \/ CheckPaymentStatusAppend
    \/ \E i \in Ids : read_accessors(i)
    \/ Tick

SpecFrame == Init /\ [][NextFrame]_vars

\* the identifier that the step writes: the one that the delivered event
\* names, or the one that check_payment_status is asked about
Written(i) ==
    \/ /\ last'.op = "on_event"
       /\ last'.event \in (IF i = "a" THEN EventsA ELSE EventsB)
    \/ /\ pending'.pc = "append" \/ last'.op = "check_payment_status"
       /\ i = (IF pending'.pc = "append" THEN pending'.id ELSE last'.id)

\* C18: a timestamp that is kept over a step does not decrease; a step that
\* delivers an event or writes a status leaves the status, error, timestamp,
\* details and paid entries of every identifier it does not name unchanged;
\* a step of the read accessors changes nothing in the tracker.
C18_Frame ==
    [][/\ \A i \in Ids :
            (i \in DOMAIN listener.payment_timestamps
              /\ i \in DOMAIN listener'.payment_timestamps)
                => listener'.payment_timestamps[i] >= listener.payment_timestamps[i]
       /\ now' = now =>
            \A i \in Ids : ~Written(i) => Record(listener', i) = Record(listener, i)
       /\ (last'.op = "read" /\ now' = now) =>
            /\ listener' = listener
            /\ last'.status = get_payment_status(listener, last'.identifier)]_vars

\* an event of payment "b" at the last clock value has left the record of
\* payment "a", failed at time 0, as it was
C18_Witness ==
    /\ last.op = "on_event"
    /\ last.event \in EventsB
    /\ {"a", "b"} \subseteq DOMAIN listener.payment_timestamps
    /\ get_payment_timestamp(listener, "b") = MaxTime
    /\ get_payment_timestamp(listener, "a") = 0
    /\ get_payment_status(listener, "a") = "FAILED"
    /\ get_payment_error(listener, "a") = "swap expired"

\* the accessors have read a paid record
C18_WitnessRead ==
    /\ last.op = "read"
    /\ last.is_paid
    /\ last.status = "FAILED"
    /\ last.timestamp = 1

---------------------------------------------------------------------------
(* The callback thread line by line: claim C19, under SpecAtomic *)

\* SdkListener takes no lock: the callback thread can be preempted between
\* any two statements of _update_payment_state. The first step resolves the
\* identifier and runs line 85.
on_event_begin(event) ==
    /\ handler.initialized
    /\ handler.instance # None
    /\ handler.listener # None
    /\ callback = CallbackInit
    /\ event.kind # "SYNCED"
    /\ event.details # NoDetails
    /\ Truthy(ResolveIdentifier(event.details))
    /\ LET identifier == ResolveIdentifier(event.details)
           status == IF event.kind = "PAYMENT_FAILED" THEN "FAILED"
                     ELSE EventStatus(event.kind)
       IN /\ listener' = [listener EXCEPT
                            !.payment_statuses = Put(@, identifier, status)]
          /\ callback' = [pc |-> "timestamp", event |-> event,
                          identifier |-> identifier, status |-> status,
                          error |-> IF event.kind = "PAYMENT_FAILED"
                                    THEN EventError(event.details) ELSE None,
                          before |-> listener, started |-> now]
    /\ UNCHANGED <<handler, pending, now, last, watchdog, engine, webhook>>

\* the next statement of _update_payment_state: line 87, lines 90-91,
\* lines 94-97, lines 100-102
on_event_continue ==
    /\ callback.pc # "idle"
    /\ LET c == callback IN
       CASE c.pc = "timestamp" ->
              /\ listener' = [listener EXCEPT
                                !.payment_timestamps = Put(@, c.identifier, now)]
              /\ callback' = [c EXCEPT !.pc = "details"]
              /\ last' = last
         [] c.pc = "details" ->
              /\ listener' = CacheDetails(listener, c.identifier, c.event.details)
              /\ callback' = [c EXCEPT !.pc = "error"]
              /\ last' = last
         [] c.pc = "error" ->
              /\ listener' = TrackError(listener, c.identifier, c.status, c.error)
              /\ callback' = [c EXCEPT !.pc = "paid"]
              /\ last' = last
         [] c.pc = "paid" ->
              /\ listener' = UpdatePaidList(listener, c.identifier, c.status)
              /\ callback' = CallbackInit
              /\ last' = [op |-> "on_event", event |-> c.event,
                          repeated |-> last.op = "on_event" /\ last.event = c.event]
    /\ UNCHANGED <<handler, pending, now, watchdog, engine, webhook>>

AtomicEvents ==
    {Event(k, DetailsOf("a", "b", "", NoAttr)) : k \in {"PAYMENT_PENDING", "PAYMENT_SUCCEEDED"}}
    \cup {Event("PAYMENT_FAILED", DetailsOf("a", "b", "", "swap expired"))}

NextAtomic ==
    \/ \E event \in AtomicEvents : on_event_begin(event)
    \/ on_event_continue
    \/ \E i \in Ids : read_accessors(i)
    \/ Tick

SpecAtomic == Init /\ [][NextAtomic]_vars

\* what the accessors return for an identifier
Observed(L, i) ==
    <<get_payment_status(L, i), get_payment_error(L, i), is_paid(L, i)>>

\* C19: what a reader gets for an identifier while the callback thread is
\* inside an update of that identifier is the record before the update or
\* the record after it: status, error and paid flag of one of the two, and
\* with the new ones a timestamp taken during the update.
C19_AtomicUpdate ==
    (/\ last.op = "read"
     /\ last.callback.pc # "idle"
     /\ last.callback.identifier = last.identifier)
        => LET c == last.callback
               i == last.identifier
               after == _update_payment_state(c.before, i, c.status,
                                              c.event.details, c.error, c.started)
               seen == <<last.status, last.error, last.is_paid>>
           IN \/ /\ seen = Observed(c.before, i)
                 /\ last.timestamp = get_payment_timestamp(c.before, i)
              \/ /\ seen = Observed(after, i)
                 /\ last.stamped
                 /\ last.timestamp >= c.started

---------------------------------------------------------------------------
(* send_payment: claims C5, C6, under SpecSend *)

\* Arguments of send_payment.  The validation asks of an amount only whether
\* it is None, so amounts are written as their texts.
AmountsSat == {None, "0", "1000"}
AmountsAsset == {None, "1.0"}
AssetIds == {None, "", "X"}
Destinations == {"a", "b"}
\* what the engine does with prepare_send_payment and send_payment
SendOutcomes == {"ok", "prepare raises", "send raises"}

\* an amount choice that lets amount_sat win over asset arguments
AmountModeFirstWins(amount_sat, amount_asset, asset_id, drain) ==
    IF drain THEN "DRAIN"
    ELSE IF amount_sat # None THEN "BITCOIN"
    ELSE IF amount_asset # None /\ asset_id # None THEN "ASSET"
    ELSE "ValueError"

\* an amount choice without the final else: no amount falls through
AmountModeNoElse(amount_sat, amount_asset, asset_id, drain) ==
    IF drain THEN "DRAIN"
    ELSE IF amount_sat # None
    THEN IF amount_asset # None \/ asset_id # None THEN "ValueError" ELSE "BITCOIN"
    ELSE IF amount_asset # None /\ asset_id # None THEN "ASSET"
    ELSE None

\* lines 576-596: the PayAmount that is built, or the ValueError
AmountMode(amount_sat, amount_asset, asset_id, drain) ==
    IF drain THEN "DRAIN"
    ELSE IF amount_sat # None
    THEN IF amount_asset # None \/ asset_id # None THEN "ValueError" ELSE "BITCOIN"
    ELSE IF amount_asset # None /\ asset_id # None
    THEN IF amount_sat # None \/ drain THEN "ValueError" ELSE "ASSET"
    ELSE "ValueError"

\* lines 575-627: the engine calls made, and the exception raised if any
send_payment_handler(H, amount_sat, amount_asset, asset_id, drain, outcome) ==
    LET amount_obj == AmountMode(amount_sat, amount_asset, asset_id, drain) IN
    IF amount_obj = "ValueError"
    THEN [engine_calls |-> <<>>, raised |-> "ValueError"]
    ELSE IF H.instance = None
    THEN [engine_calls |-> <<>>, raised |-> "AttributeError"]
    ELSE IF outcome = "prepare raises"
    THEN [engine_calls |-> <<"prepare_send_payment">>, raised |-> "Exception"]
    ELSE IF outcome = "send raises"
    THEN [engine_calls |-> <<"prepare_send_payment", "send_payment">>,
          raised |-> "Exception"]
    ELSE [engine_calls |-> <<"prepare_send_payment", "send_payment">>,
          raised |-> None]

send_payment(destination, amount_sat, amount_asset, asset_id, drain, outcome) ==
    /\ pending = Idle
    /\ last' = [op |-> "send_payment", destination |-> destination,
                amount_sat |-> amount_sat, amount_asset |-> amount_asset,
                asset_id |-> asset_id, drain |-> drain]
               @@ send_payment_handler(handler, amount_sat, amount_asset, asset_id,
                                       drain, outcome)
    /\ UNCHANGED <<listener, handler, pending, now, watchdog, engine, callback, webhook>>

NextSend ==
    \/ \E d \in Destinations, sat \in AmountsSat, asset \in AmountsAsset,
          id \in AssetIds, drain \in BOOLEAN, o \in SendOutcomes :
          send_payment(d, sat, asset, id, drain, o)
    \/ \E d \in DisconnectOutcomes : disconnect(d)
    \/ \E c \in ConstructOutcomes : PaymentHandler(c)

SpecSend == Init /\ [][NextSend]_vars

Sent == last.op = "send_payment"
\* the number of amount modes that the arguments of the last call specify
ModesGiven ==
    (IF last.amount_sat # None THEN 1 ELSE 0)
    + (IF last.amount_asset # None /\ last.asset_id # None THEN 1 ELSE 0)
    + (IF last.drain THEN 1 ELSE 0)
Rejected == last.raised = "ValueError" /\ last.engine_calls = <<>>

C5_WitnessDrain ==
    /\ Sent /\ last.drain /\ last.amount_sat # None
    /\ last.engine_calls = <<"prepare_send_payment", "send_payment">>

\* C6: send_payment with amount_sat together with amount_asset and asset_id,
\* drain not set, fails with the invalid-argument error and the engine
\* receives no call.
C6_SatWithAsset ==
    (/\ Sent /\ ~last.drain
     /\ last.amount_sat # None /\ last.amount_asset # None /\ last.asset_id # None)
        => Rejected

C6_Witness ==
    /\ Sent /\ ~last.drain
    /\ last.amount_sat = "1000" /\ last.amount_asset = "1.0" /\ last.asset_id = "X"
    /\ handler.instance # None
    /\ Rejected

---------------------------------------------------------------------------
(* Webhook notifications *)

\* line 75: the retention of the sent-cache, 24 hours
Retention == 86400

\* the coroutines that call send_webhook_notification: the watchdog's sweep
\* and the /check_payment_status endpoint
Senders == {"watchdog", "request"}
\* what the POST of line 145 ends with: a status code, or an exception
WebhookResponses == {"200", "500", "raise"}
NotificationStatuses == {"SUCCEEDED", "FAILED"}

\* lines 46-57: .get(status) is not None, of a dict whose values are times
has_webhook_been_sent(cache, invoice_id, status) ==
    /\ invoice_id \in DOMAIN cache
    /\ status \in DOMAIN cache[invoice_id]

\* lines 73-79: entries older than 24 hours go, and then the payments that
\* have no entry left
PurgeOld(cache, current_time) ==
    LET kept(p) == {k \in DOMAIN cache[p] : ~(current_time - cache[p][k] > Retention)}
    IN [p \in {q \in DOMAIN cache : kept(q) # {}} |->
            [k \in kept(p) |-> cache[p][k]]]

\* lines 59-79
mark_webhook_sent(cache, invoice_id, status, t) ==
    LET statuses == IF invoice_id \in DOMAIN cache THEN cache[invoice_id] ELSE EmptyDict
    IN PurgeOld(Put(cache, invoice_id, Put(statuses, status, t)), t)

\* lines 92-103: the call returns before any request is made
WebhookSkipped(W, invoice_id, status, configured) ==
    ~configured \/ has_webhook_been_sent(W.sent_cache, invoice_id, status)

\* lines 145-164: the receiver has the notification once it answers 200, and
\* the pair is marked then
WebhookPosted(W, invoice_id, status, response, t) ==
    IF response = "200"
    THEN [W EXCEPT !.deliveries = Append(@, [invoice_id |-> invoice_id,
                                             status |-> status, at |-> t]),
                   !.sent_cache = mark_webhook_sent(@, invoice_id, status, t)]
    ELSE W

\* send_webhook_notification from its first line to the await of the POST
send_webhook_notification(sender, invoice_id, status, configured) ==
    /\ webhook.senders[sender] = Idle
    /\ IF WebhookSkipped(webhook, invoice_id, status, configured)
       THEN /\ UNCHANGED webhook
            /\ last' = [op |-> "send_webhook_notification", sender |-> sender,
                        invoice_id |-> invoice_id, status |-> status,
                        response |-> "skipped"]
       ELSE /\ webhook' = [webhook EXCEPT !.senders[sender] =
                               [pc |-> "post", invoice_id |-> invoice_id,
                                status |-> status]]
            /\ UNCHANGED last
    /\ UNCHANGED <<listener, handler, pending, now, watchdog, engine, callback>>

\* the POST ends and the coroutine runs to its return
webhook_response(sender, response) ==
    /\ webhook.senders[sender] # Idle
    /\ response = "200" => Len(webhook.deliveries) < MaxDeliveries
    /\ LET call == webhook.senders[sender] IN
       /\ webhook' = [WebhookPosted(webhook, call.invoice_id, call.status, response, now)
                         EXCEPT !.senders[sender] = Idle]
       /\ last' = [op |-> "send_webhook_notification", sender |-> sender,
                   invoice_id |-> call.invoice_id, status |-> call.status,
                   response |-> response]
    /\ UNCHANGED <<listener, handler, pending, now, watchdog, engine, callback>>

---------------------------------------------------------------------------
(* The sync watchdog: claim C7, under SpecWatchdog *)

\* a resync timeout that grows without the cap
ResyncTimeoutUncapped(failures) == 5 + (failures * 2)

\* line 190
ResyncTimeout(failures) == Min(5 + (failures * 2), 30)

\* lines 196-221: the sweep over the pending payments after a successful
\* resync.  list_payments raises (swallowed by line 220) or returns the
\* pending payments; check_payment_status runs for each destination, on the
\* watchdog's own thread, with the given outcomes of its two lookups.
RECURSIVE Sweep(_, _, _, _)
Sweep(H, L, destinations, outcome) ==
    IF destinations = <<>> THEN L
    ELSE LET r == check_payment_status(H, L, Head(destinations), outcome[1], outcome[2])
             L1 == IF r.append
                   THEN [r.listener EXCEPT !.paid = Append(@, Head(destinations))]
                   ELSE r.listener
         IN Sweep(H, L1, Tail(destinations), outcome)

\* lines 213-219: the notifications of the sweep, each sent and answered
\* before the next payment is checked; notify is "not configured" or what
\* every POST ends with
RECURSIVE SweepWebhooks(_, _, _, _, _, _, _)
SweepWebhooks(H, L, W, destinations, outcome, notify, t) ==
    IF destinations = <<>> THEN W
    ELSE LET payment_id == Head(destinations)
             r == check_payment_status(H, L, payment_id, outcome[1], outcome[2])
             W1 == IF /\ r.ret.status \in {"SUCCEEDED", "FAILED"}
                      /\ ~WebhookSkipped(W, payment_id, r.ret.status,
                                         notify # "not configured")
                   THEN WebhookPosted(W, payment_id, r.ret.status, notify, t)
                   ELSE W
         IN SweepWebhooks(H, Sweep(H, L, <<payment_id>>, outcome), W1,
                          Tail(destinations), outcome, notify, t)

PendingLists == {<<>>, <<"a">>, <<"a", "b">>}

\* a sweep that stops after the first payment
SweptFirstOnly(destinations) ==
    IF destinations = <<>> THEN <<>> ELSE SelectSeq(<<Head(destinations)>>, Truthy)

\* lines 201-204: the sweep goes through payment.get('destination') of the
\* listed payments and passes over a payment that has none
Swept(destinations) == SelectSeq(destinations, Truthy)

\* what the reconstruction of lines 231-232 meets: the engine's disconnect
\* and the construction
ReinitOutcomes ==
    {<<"disconnected", "connected">>, <<"disconnected", "connect raises">>}

\* a staleness test that takes a sync time of 0 as fresh
SyncIsStaleSinceEpoch(W, current_time) ==
    current_time - W.last_sync_time > 30

\* line 182: the age of the last sync is over 30 s; infinite when
\* _last_sync_time is still 0
SyncIsStale(W, current_time) ==
    W.last_sync_time <= 0 \/ current_time - W.last_sync_time > 30

\* an except clause that lets everything but KeyError end the loop
loop_exceptKeyErrorOnly(exception) ==
    IF exception = "KeyError" THEN "running" ELSE "stopped"

\* line 245, except Exception around the body of while True: the exceptions
\* derived from Exception are caught and the loop goes on; CancelledError
\* derives from BaseException and ends the task
loop_except(exception) ==
    IF exception = "CancelledError" THEN "stopped" ELSE "running"

\* One iteration of the loop of periodic_sync_check (lines 172-248), from the
\* read of the clock to the sleep.  arrives: a SYNCED event reaches the
\* listener before the resync timeout; reinit: what the engine's disconnect
\* and the reconstruction do.
periodic_sync_check(arrives, reinit, listRaises, destinations, outcome, notify) ==
    /\ pending = Idle
    /\ callback = CallbackInit
    /\ webhook.senders["watchdog"] = Idle
    /\ notify = "200" => Len(webhook.deliveries) + Len(destinations) <= MaxDeliveries
    /\ watchdog.task = "running"
    /\ watchdog.consecutive_sync_failures < MaxFailures
    /\ LET failures == watchdog.consecutive_sync_failures
           current_time == now
           iteration(branch, timeout, sleep_time) ==
               [op |-> "periodic_sync_check", branch |-> branch,
                failures |-> failures, timeout |-> timeout,
                sleep_time |-> sleep_time]
       IN
       IF handler.listener = None
       THEN \* line 180 raises AttributeError: lines 245-248
            /\ watchdog' = [watchdog EXCEPT !.consecutive_sync_failures = failures + 1,
                                            !.task = loop_except("AttributeError")]
            /\ last' = iteration("exception", 0, 5)
            /\ UNCHANGED <<listener, handler, engine, webhook>>
       ELSE
         LET is_synced == listener.synced
             timeout == ResyncTimeout(failures)
         IN
         IF ~is_synced \/ SyncIsStale(watchdog, current_time)
         THEN IF is_synced \/ arrives
              THEN \* wait_for_sync returned True: lines 192-221
                   LET synced == [listener EXCEPT !.synced = TRUE] IN
                   /\ listener' = IF listRaises THEN synced
                                  ELSE Sweep(handler, synced, Swept(destinations), outcome)
                   /\ webhook' = IF listRaises THEN webhook
                                 ELSE SweepWebhooks(handler, synced, webhook,
                                                    Swept(destinations), outcome, notify, now)
                   /\ watchdog' = [watchdog EXCEPT !.consecutive_sync_failures = 0,
                                                   !.last_sync_time = now]
                   /\ last' = iteration("resynced", timeout, IF is_synced THEN 30 ELSE 10)
                   /\ UNCHANGED <<handler, engine>>
              ELSE IF failures + 1 < 5
              THEN \* lines 223-224
                   /\ watchdog' = [watchdog EXCEPT !.consecutive_sync_failures = failures + 1]
                   /\ last' = iteration("resync failed", timeout, 10)
                   /\ UNCHANGED <<listener, handler, engine, webhook>>
              ELSE \* lines 227-236: disconnect and reconstruct
                   LET d == disconnect_handler(handler, reinit[1])
                       c == construct_handler(d.handler, reinit[2])
                   IN
                   /\ reinit[2] # "connect raises" =>
                          engine_disconnect(engine, handler, reinit[1]).live < MaxConnections
                   /\ handler' = c.handler
                   /\ listener' = IF reinit[2] = "connect raises" THEN cleanup(listener)
                                  ELSE SdkListenerInit
                   /\ engine' = engine_connect(
                                    engine_disconnect(engine, handler, reinit[1]), reinit[2])
                   /\ watchdog' = [watchdog EXCEPT !.consecutive_sync_failures =
                                       IF c.raised = None THEN 0 ELSE failures + 1]
                   /\ last' = iteration(IF c.raised = None THEN "reinitialized"
                                        ELSE "reinitialization failed", timeout, 10)
                   /\ UNCHANGED webhook
         ELSE \* lines 237-239
              /\ watchdog' = [watchdog EXCEPT !.consecutive_sync_failures = 0,
                                              !.last_sync_time = current_time]
              /\ last' = iteration("healthy", 0, 30)
              /\ UNCHANGED <<listener, handler, engine, webhook>>
    /\ UNCHANGED <<pending, now, callback>>

\* the loop sleeps, or waits for the sync, and the clock moves on
SleepTimes == {10, 30}
Elapse(seconds) ==
    /\ pending = Idle
    /\ now + seconds <= MaxWatchdogTime
    /\ now' = now + seconds
    /\ UNCHANGED <<listener, handler, pending, last, watchdog, engine, callback, webhook>>

WatchdogEvents ==
    {Synced, Event("PAYMENT_SUCCEEDED", DetailsOf("a", "b", "", NoAttr)),
     Event("PAYMENT_FAILED", DetailsOf("a", "b", "", "swap expired"))}

\* what an iteration meets before the sweep: a SYNCED event in time or not,
\* and, for the iteration that reinitializes, what ReinitOutcomes says
ResyncCases ==
    {<<TRUE, <<"disconnected", "connected">>>>} \cup ({FALSE} \X ReinitOutcomes)
\* what the sweep meets: list_payments raises; or it returns the pending
\* payments, and the lookups of check_payment_status go one way for them all
SweepCases ==
    {<<TRUE, <<>>, <<None, None>>>>}
    \cup ({FALSE} \X PendingLists
              \X {<<"raise", "raise">>, <<"SUCCEEDED", None>>, <<"raise", "FAILED">>})

NextWatchdog ==
    \/ \E r \in ResyncCases, w \in SweepCases :
          periodic_sync_check(r[1], r[2], w[1], w[2], w[3], "not configured")
    \/ \E event \in WatchdogEvents : on_event(event)
    \/ \E c \in {"connected", "connect raises"} : PaymentHandler(c)
    \/ \E seconds \in SleepTimes : Elapse(seconds)

SpecWatchdog == Init /\ [][NextWatchdog]_vars

\* the last watchdog iteration attempted a resync
Resync ==
    /\ last.op = "periodic_sync_check"
    /\ last.branch \in {"resynced", "resync failed", "reinitialized",
                        "reinitialization failed"}

\* C7: a resync attempt made with f consecutive failures uses the timeout
\* min(5 + 2f, 30): 5, 7, 9, 11, 13 for f = 0..4, never more than 30, and
\* exactly 30 from f = 13 on.
C7_BackoffBound ==
    Resync =>
        /\ last.timeout <= 30
        /\ last.failures <= 4 => last.timeout = <<5, 7, 9, 11, 13>>[last.failures + 1]
        /\ last.failures < 13 => last.timeout = 5 + 2 * last.failures
        /\ last.failures >= 13 => last.timeout = 30

\* a resync attempt after 13 consecutive failures
C7_Witness == Resync /\ last.failures = 13 /\ last.timeout = 30

\* the step is an iteration of the watchdog
Iteration == last'.op = "periodic_sync_check" /\ now' = now

\* the iteration finds the listener unsynced or the last sync older than 30 s
\* and calls wait_for_sync
Attempts ==
    /\ Iteration
    /\ handler.listener # None
    /\ ~listener.synced \/ watchdog.last_sync_time = 0
                        \/ now - watchdog.last_sync_time > 30

\* the attempt of the step ends with the listener synced, or times out
Succeeds == Attempts /\ listener'.synced
TimesOut == Attempts /\ ~listener'.synced

\* an iteration that attempts a resync and times out increases the counter
\* by exactly 1
C20_TimeoutAddsOne ==
    [][TimesOut => watchdog'.consecutive_sync_failures
                       = watchdog.consecutive_sync_failures + 1]_vars

\* C20: an iteration that attempts a resync sets the counter to 0 and
\* last_sync_time to the clock when wait_for_sync succeeds; when it times
\* out the counter increases by exactly 1, unless that brings it to 5 or
\* more and the reinitialization that follows succeeds, which sets it to 0.
\* An iteration that finds the listener synced with a sync age of at most
\* 30 s attempts no resync and sets the counter to 0.
C20_FailureCounter ==
    [][/\ Succeeds =>
            /\ last'.branch = "resynced"
            /\ watchdog' = [watchdog EXCEPT !.consecutive_sync_failures = 0,
                                            !.last_sync_time = now]
       /\ TimesOut =>
            LET failures == watchdog.consecutive_sync_failures + 1 IN
            /\ watchdog'.last_sync_time = watchdog.last_sync_time
            /\ \/ /\ watchdog'.consecutive_sync_failures = failures
                  /\ failures < 5 <=> last'.branch = "resync failed"
                  /\ failures >= 5 <=> last'.branch = "reinitialization failed"
               \/ /\ watchdog'.consecutive_sync_failures = 0
                  /\ failures >= 5
                  /\ last'.branch = "reinitialized"
                  /\ handler'.initialized
                  /\ listener' = SdkListenerInit
       /\ (Iteration /\ ~Attempts /\ handler.listener # None) =>
            /\ last'.branch = "healthy"
            /\ watchdog' = [watchdog EXCEPT !.consecutive_sync_failures = 0,
                                            !.last_sync_time = now]
            /\ UNCHANGED <<listener, handler, engine>>]_vars

\* a resync after three timeouts has succeeded, later than time 0
C20_Witness ==
    /\ last.op = "periodic_sync_check"
    /\ last.branch = "resynced"
    /\ last.failures = 3
    /\ now > 0
    /\ watchdog = [WatchdogInit EXCEPT !.last_sync_time = now]

\* the fifth timeout in a row was followed by a reinitialization
C20_WitnessReinitialized ==
    /\ last.op = "periodic_sync_check"
    /\ last.branch = "reinitialized"
    /\ last.failures = 4
    /\ watchdog.consecutive_sync_failures = 0

\* an iteration has found a synced listener with a fresh sync
C20_WitnessHealthy ==
    /\ last.op = "periodic_sync_check"
    /\ last.branch = "healthy"
    /\ watchdog = [WatchdogInit EXCEPT !.last_sync_time = now]
    /\ now >= 40

---------------------------------------------------------------------------
(* Webhook delivery: claim C15, under SpecWebhook *)

\* more than 24 hours pass
DayPasses ==
    /\ now <= MaxTime
    /\ now' = now + Retention + 1
    /\ UNCHANGED <<listener, handler, pending, last, watchdog, engine, callback, webhook>>

\* the watchdog's iterations with the webhook configured: its sweep finds
\* payment "a" and notifies, and each POST is answered within the iteration
NextWebhook ==
    \/ \E o \in {<<"SUCCEEDED", None>>, <<"raise", "FAILED">>},
          response \in WebhookResponses :
          periodic_sync_check(TRUE, <<"disconnected", "connected">>, FALSE,
                              <<"a">>, o, response)
    \/ \E sender \in Senders, status \in NotificationStatuses, configured \in BOOLEAN :
          send_webhook_notification(sender, "a", status, configured)
    \/ \E sender \in Senders, response \in WebhookResponses :
          webhook_response(sender, response)
    \/ Tick
    \/ DayPasses

SpecWebhook == Init /\ [][NextWebhook]_vars

SamePair(d, e) == d.invoice_id = e.invoice_id /\ d.status = e.status

\* C15: two notifications of the same invoice and status that the receiver
\* answered with 200 are more than the 24 hours of the retention apart, and
\* every pair that is marked sent has been answered with 200 at the time of
\* its mark.
C15_WebhookOnce ==
    /\ \A i, j \in 1..Len(webhook.deliveries) :
           (i < j /\ SamePair(webhook.deliveries[i], webhook.deliveries[j]))
               => webhook.deliveries[j].at - webhook.deliveries[i].at > Retention
    /\ \A p \in DOMAIN webhook.sent_cache : \A k \in DOMAIN webhook.sent_cache[p] :
           \E i \in 1..Len(webhook.deliveries) :
               webhook.deliveries[i] =
                   [invoice_id |-> p, status |-> k, at |-> webhook.sent_cache[p][k]]

---------------------------------------------------------------------------
(* The engine connection: claims C11, C13, under SpecConnection *)

NextConnection ==
    \/ \E d \in DisconnectOutcomes : disconnect(d)
    \/ \E c \in ConstructOutcomes : PaymentHandler(c)
    \/ \E event \in WatchdogEvents : on_event(event)
    \/ \E arrives \in BOOLEAN, reinit \in DisconnectOutcomes \X ConstructOutcomes :
          periodic_sync_check(arrives, reinit, TRUE, <<>>, <<None, None>>,
                              "not configured")

SpecConnection == Init /\ [][NextConnection]_vars

Cleared == [instance |-> None, listener |-> None, initialized |-> FALSE]

\* C11: every disconnect() returns normally and leaves the handler without
\* engine instance, without listener and uninitialized, whatever state it
\* was called in and whatever the engine's disconnect did; the construction
\* that follows does not return early, and when the engine accepts the
\* connection it opens one more connection and installs a listener whose
\* containers are empty and whose sync flag is false.
C11_DisconnectSafe ==
    [][/\ last'.op = "disconnect" =>
            (last'.raised = None /\ handler' = Cleared)
       /\ (handler = Cleared /\ last'.op = "PaymentHandler" /\ last' # last) =>
            /\ last'.connected \/ last'.raised
            /\ last'.connected =>
                   /\ engine'.live = engine.live + 1
                   /\ handler'.instance # None /\ handler'.listener # None
                   /\ listener' = SdkListenerInit]_vars

\* disconnect() of a partially constructed handler, the engine raising
C11_Witness ==
    /\ last.op = "disconnect"
    /\ last.before = [PaymentHandlerInit EXCEPT !.initialized = FALSE]
    /\ last.engine_raised
    /\ last.raised = None
    /\ handler = Cleared

\* disconnect() of a handler that is disconnected already
C11_WitnessRepeated ==
    /\ last.op = "disconnect"
    /\ last.before = Cleared
    /\ last.raised = None
    /\ handler = Cleared

---------------------------------------------------------------------------
(* The waits: claim C14, under SpecWait *)

WaitTimeouts == {0, 1, 2}

\* a loop condition that never sees the timeout
WaitExpiredNever(start_time, timeout_seconds, t) == FALSE

\* lines 317 and 333: the negation of the loop condition
\* time.time() - start_time < timeout_seconds
WaitExpired(start_time, timeout_seconds, t) == ~(t - start_time < timeout_seconds)

\* lines 317-323, one evaluation of the loop of wait_for_sync: the value
\* returned ("True", "False"), the exception raised, or "sleep" for another
\* round
wait_for_sync_round(H, L, start_time, timeout_seconds, t) ==
    IF WaitExpired(start_time, timeout_seconds, t) THEN "False"
    ELSE IF H.listener = None THEN "AttributeError"
    ELSE IF L.synced THEN "True"
    ELSE "sleep"

\* lines 333-351, one evaluation of the loop of wait_for_payment
wait_for_payment_round(H, L, identifier, start_time, timeout_seconds, t) ==
    IF WaitExpired(start_time, timeout_seconds, t) THEN "False"
    ELSE IF H.listener = None THEN "AttributeError"
    ELSE LET status == get_payment_status(L, identifier) IN
         IF status \in {"SUCCEEDED", "PENDING"} THEN "True"
         ELSE IF status = "FAILED" THEN "False"
         ELSE IF status = "REFUNDED" THEN "False"
         ELSE "sleep"

\* lines 315-316 and 330-332: the wait reads the clock and enters its loop
wait_begin(wait, identifier, timeout_seconds) ==
    /\ pending = Idle
    /\ now + timeout_seconds <= MaxTime
    /\ pending' = [pc |-> wait, identifier |-> identifier, start_time |-> now,
                   timeout_seconds |-> timeout_seconds]
    /\ UNCHANGED <<listener, handler, now, last, watchdog, engine, callback, webhook>>

Waited(result) ==
    [op |-> pending.pc, identifier |-> pending.identifier,
     timeout_seconds |-> pending.timeout_seconds,
     elapsed |-> now - pending.start_time, ret |-> result]

\* the waiting thread evaluates its loop once more
wait_for_sync ==
    /\ pending.pc = "wait_for_sync"
    /\ LET r == wait_for_sync_round(handler, listener, pending.start_time,
                                    pending.timeout_seconds, now)
       IN IF r = "sleep" THEN UNCHANGED <<pending, last>>
          ELSE pending' = Idle /\ last' = Waited(r)
    /\ UNCHANGED <<listener, handler, now, watchdog, engine, callback, webhook>>

wait_for_payment ==
    /\ pending.pc = "wait_for_payment"
    /\ LET r == wait_for_payment_round(handler, listener, pending.identifier,
                                       pending.start_time, pending.timeout_seconds, now)
       IN IF r = "sleep" THEN UNCHANGED <<pending, last>>
          ELSE pending' = Idle /\ last' = Waited(r)
    /\ UNCHANGED <<listener, handler, now, watchdog, engine, callback, webhook>>

NextWait ==
    \/ \E t \in WaitTimeouts : wait_begin("wait_for_sync", None, t)
    \/ \E t \in WaitTimeouts : wait_begin("wait_for_payment", "a", t)
    \/ wait_for_sync
    \/ wait_for_payment
    \/ \E event \in EventsA \cup {Synced} : on_event(event)
    \/ disconnect("disconnected")
    \/ PaymentHandler("connected")
    \/ Tick

\* the clock advances, and a waiting thread is scheduled again and again
SpecWait ==
    /\ Init /\ [][NextWait]_vars
    /\ WF_vars(Tick) /\ WF_vars(wait_for_sync) /\ WF_vars(wait_for_payment)

Waiting == pending.pc \in {"wait_for_sync", "wait_for_payment"}

\* C14: every wait_for_sync and wait_for_payment that has begun ends,
\* whatever events arrive or do not; a wait ends as soon as its loop is
\* evaluated with the timeout elapsed, and then returns false; wait_for_sync
\* returns true only from an evaluation before the timeout that sees the
\* sync flag true.
C14_WaitsBounded ==
    /\ Waiting ~> (pending = Idle)
    /\ [][(Waiting /\ (wait_for_sync \/ wait_for_payment)) =>
            LET expired == now - pending.start_time >= pending.timeout_seconds IN
            /\ expired => (pending' = Idle /\ last'.ret = "False")
            /\ (pending.pc = "wait_for_sync" /\ pending' = Idle /\ last'.ret = "True")
                   => (~expired /\ listener.synced)
            /\ (pending.pc = "wait_for_sync" /\ ~expired /\ listener.synced)
                   => (pending' = Idle /\ last'.ret = "True")]_vars

\* wait_for_sync(2) returned false after 2 s with no SYNCED event
C14_Witness ==
    /\ last.op = "wait_for_sync"
    /\ last.timeout_seconds = 2 /\ last.elapsed = 2
    /\ last.ret = "False"
    /\ handler.listener # None /\ ~listener.synced

\* wait_for_payment returned false at its timeout while the payment was
\* waiting for confirmation
C14_WitnessPayment ==
    /\ last.op = "wait_for_payment"
    /\ last.timeout_seconds = 1 /\ last.elapsed = 1
    /\ last.ret = "False"
    /\ get_payment_status(listener, "a") = "WAITING_CONFIRMATION"

\* C13: at every point in time at most one connection opened by
\* PaymentHandler is live.
C13_SingleConnection == engine.live <= 1

---------------------------------------------------------------------------
(* The watchdog's restart: claim C21, under SpecConnection *)

\* C21: an iteration whose resync times out with the counter below 4 leaves
\* the handler alone; one that brings the counter to 5 or more disconnects the
\* handler, so that no payment record of the old tracker is left, and
\* constructs it again; when the construction succeeds the counter is 0, the
\* handler is initialized with an engine instance and a listener, the
\* engine holds a connection and the tracker is empty.
C21_GiveUpAndRestart ==
    [][TimesOut =>
          LET failures == watchdog.consecutive_sync_failures + 1 IN
          /\ failures < 5 =>
                UNCHANGED <<handler, listener, engine>>
          /\ failures >= 5 =>
                /\ last'.branch \in {"reinitialized", "reinitialization failed"}
                /\ \A i \in Ids : Absent(listener', i)
                /\ handler'.initialized <=> last'.branch = "reinitialized"
                /\ handler'.initialized =>
                      /\ watchdog'.consecutive_sync_failures = 0
                      /\ handler'.instance # None
                      /\ handler'.listener # None
                      /\ engine'.live >= 1
                      /\ listener' = SdkListenerInit
                /\ ~handler'.initialized =>
                      watchdog'.consecutive_sync_failures = failures]_vars

\* the fifth timeout in a row has restarted the handler
C21_Witness ==
    /\ last.op = "periodic_sync_check"
    /\ last.branch = "reinitialized"
    /\ last.failures = 4
    /\ handler = PaymentHandlerInit
    /\ listener = SdkListenerInit
    /\ engine.live = 1
    /\ watchdog.consecutive_sync_failures = 0

\* the restart has failed: the engine refused the connection
C21_WitnessFailed ==
    /\ last.op = "periodic_sync_check"
    /\ last.branch = "reinitialization failed"
    /\ handler = Cleared
    /\ engine.live = 0
    /\ watchdog.consecutive_sync_failures = 5

---------------------------------------------------------------------------
(* The watchdog's loop: claim C22, under SpecLoop *)

\* lines 286-299, the shutdown half of lifespan: the task is cancelled at
\* the await it is suspended in, and the handler is disconnected
lifespan_shutdown(outcome) ==
    /\ pending = Idle
    /\ callback = CallbackInit
    /\ watchdog.task = "running"
    /\ watchdog' = [watchdog EXCEPT !.task = loop_except("CancelledError")]
    /\ listener' = IF Truthy(handler.listener) THEN cleanup(listener) ELSE listener
    /\ handler' = disconnect_handler(handler, outcome).handler
    /\ engine' = engine_disconnect(engine, handler, outcome)
    /\ last' = [op |-> "lifespan_shutdown"]
    /\ UNCHANGED <<pending, now, callback, webhook>>

NextLoop ==
    \/ \E event \in WatchdogEvents : on_event(event)
    \/ \E arrives \in BOOLEAN, reinit \in DisconnectOutcomes \X ConstructOutcomes,
          listRaises \in BOOLEAN :
          periodic_sync_check(arrives, reinit, listRaises, <<"a">>,
                              <<"raise", "raise">>, "not configured")
    \/ \E d \in DisconnectOutcomes : lifespan_shutdown(d)

SpecLoop == Init /\ [][NextLoop]_vars

\* C22: every iteration leaves the task running, whatever was raised by the
\* listener, the sweep or the reinitialization; the iteration that meets a
\* handler without listener raises out of its body, and then the counter is
\* increased by 1, the sleep is 5 s and nothing else changes; the task stops
\* running only in the step that cancels it.
C22_WatchdogSurvives ==
    [][/\ Iteration => watchdog'.task = "running"
       /\ (Iteration /\ handler.listener = None) =>
            /\ last'.branch = "exception"
            /\ last'.sleep_time = 5
            /\ watchdog' = [watchdog EXCEPT !.consecutive_sync_failures = @ + 1]
            /\ UNCHANGED <<handler, listener, engine>>
       /\ (Iteration /\ handler.listener # None) => last'.branch # "exception"
       /\ watchdog'.task # watchdog.task => last'.op = "lifespan_shutdown"]_vars

\* the second iteration in a row that has raised out of its body
C22_Witness ==
    /\ last.op = "periodic_sync_check"
    /\ last.branch = "exception"
    /\ last.failures = 5
    /\ watchdog.consecutive_sync_failures = 6
    /\ watchdog.task = "running"

\* the task has been cancelled
C22_WitnessCancelled ==
    /\ last.op = "lifespan_shutdown"
    /\ watchdog.task = "stopped"
    /\ handler = Cleared

---------------------------------------------------------------------------
(* The poll interval: claim C23, under SpecWatchdog *)

\* C23: an iteration that completes without raising out of its body sleeps
\* 30 s exactly when, at its end, the listener is synced and the failure
\* counter is 0, and 10 s otherwise.
C23_AdaptiveInterval ==
    [][(Iteration /\ last'.branch # "exception") =>
          /\ last'.sleep_time \in {10, 30}
          /\ last'.sleep_time = 30 <=>
                (listener'.synced /\ watchdog'.consecutive_sync_failures = 0)]_vars

---------------------------------------------------------------------------
(* The reconciliation sweep: claim C24, under SpecSweep *)

\* what list_payments returns to the sweep, by destination: the status key
\* of its argument is not read, so the payments are those that the engine
\* lists, and a payment may have no destination
SweepLists == PendingLists \cup {<<None, "a">>}
SweepOutcomes == {<<"raise", "raise">>, <<"SUCCEEDED", None>>, <<"raise", "FAILED">>}
SweepNotify == {"200", "not configured"}
\* list_payments raises; or it returns, and the lookups and the receiver
\* behave one way for all the payments
SweepInputs ==
    {<<TRUE, <<>>, <<"raise", "raise">>, "not configured">>}
    \cup ({FALSE} \X SweepLists \X SweepOutcomes \X SweepNotify)

NextSweep ==
    \/ \E w \in SweepInputs :
          periodic_sync_check(TRUE, <<"disconnected", "connected">>, w[1],
                              w[2], w[3], w[4])
    \/ \E event \in WatchdogEvents : on_event(event)
    \/ Tick

SpecSweep == Init /\ [][NextSweep]_vars

\* the step is a successful resync whose sweep meets the given payments,
\* lookups and webhook receiver
SweepStep(w) ==
    /\ Succeeds
    /\ periodic_sync_check(TRUE, <<"disconnected", "connected">>, w[1], w[2], w[3], w[4])

Range(s) == {s[k] : k \in DOMAIN s}

---------------------------------------------------------------------------
(* list_payments of src/lambda_function.py: claim C25, under SpecPagination *)

\* an optional integer parameter: <<>> is None, <<n>> is the integer n
NoInt == <<>>
IntTruthy(x) == x # NoInt /\ x[1] # 0

\* the payments that the engine returns, by timestamp, in engine order
Stamps == 1..(MaxPayments + 1)
RECURSIVE StampLists(_)
StampLists(n) ==
    IF n = 0 THEN {<<>>}
    ELSE StampLists(n - 1)
         \cup {Append(l, t) : l \in {m \in StampLists(n - 1) : Len(m) = n - 1}, t \in Stamps}
PaymentsOf(stamps) == [k \in DOMAIN stamps |-> [id |-> k, timestamp |-> stamps[k]]]
EnginePayments == {PaymentsOf(l) : l \in StampLists(MaxPayments)}

TimestampParams == {NoInt, <<0>>, <<2>>}
OffsetParams == {NoInt, <<0>>, <<1>>, <<MaxPayments + 1>>}
LimitParams == {NoInt, <<0>>, <<1>>}

\* lines 130-138: the loop over payment_list; offset is counted down on the
\* payments that pass the timestamp tests
RECURSIVE FilterLoop(_, _, _, _, _)
FilterLoop(payment_list, from_ts, to_ts, offset, filtered_payments) ==
    IF payment_list = <<>>
    THEN [filtered_payments |-> filtered_payments, offset |-> offset]
    ELSE LET payment == Head(payment_list)
             rest == Tail(payment_list)
         IN IF IntTruthy(from_ts) /\ payment.timestamp < from_ts[1]
            THEN FilterLoop(rest, from_ts, to_ts, offset, filtered_payments)
            ELSE IF IntTruthy(to_ts) /\ payment.timestamp > to_ts[1]
            THEN FilterLoop(rest, from_ts, to_ts, offset, filtered_payments)
            ELSE IF IntTruthy(offset) /\ offset[1] > 0
            THEN FilterLoop(rest, from_ts, to_ts, <<offset[1] - 1>>, filtered_payments)
            ELSE FilterLoop(rest, from_ts, to_ts, offset,
                            Append(filtered_payments, payment))

\* lines 127-160: what list_payments returns in 'payments' for the list that
\* the engine returned
list_payments_filter(payment_list, from_ts, to_ts, offset0, limit) ==
    LET loop == FilterLoop(payment_list, from_ts, to_ts, offset0, <<>>)
        offset == loop.offset
        limited == IF IntTruthy(limit) /\ limit[1] < Len(loop.filtered_payments)
                   THEN SubSeq(loop.filtered_payments, 1, limit[1])
                   ELSE loop.filtered_payments
        filtered_payments ==
            IF IntTruthy(offset) /\ offset[1] > 0
            THEN SubSeq(payment_list, offset[1] + 1, Len(payment_list))
            ELSE limited
    IN IF ~(IntTruthy(offset) \/ IntTruthy(limit) \/ IntTruthy(from_ts) \/ IntTruthy(to_ts))
       THEN payment_list
       ELSE filtered_payments

\* a request to list the payments, answered with status 200
list_payments(payment_list, from_ts, to_ts, offset, limit) ==
    /\ last' = [op |-> "list_payments", payment_list |-> payment_list,
                from_ts |-> from_ts, to_ts |-> to_ts, offset |-> offset,
                limit |-> limit,
                payments |-> list_payments_filter(payment_list, from_ts, to_ts,
                                                  offset, limit)]
    /\ UNCHANGED <<listener, handler, pending, now, watchdog, engine, callback, webhook>>

NextPagination ==
    \E payment_list \in EnginePayments, from_ts, to_ts \in TimestampParams,
       offset \in OffsetParams, limit \in LimitParams :
       list_payments(payment_list, from_ts, to_ts, offset, limit)

SpecPagination == Init /\ [][NextPagination]_vars

\* the payments with from_timestamp <= timestamp <= to_timestamp, the first
\* offset of them dropped and at most limit of the rest kept
Page(payment_list, from_ts, to_ts, offset, limit) ==
    LET matches(p) == /\ from_ts # NoInt => from_ts[1] <= p.timestamp
                      /\ to_ts # NoInt => p.timestamp <= to_ts[1]
        matching == SelectSeq(payment_list, matches)
        skip == IF offset = NoInt THEN 0 ELSE offset[1]
        rest == SubSeq(matching, skip + 1, Len(matching))
    IN IF limit = NoInt THEN rest ELSE SubSeq(rest, 1, Min(limit[1], Len(rest)))

\* C25: the payments returned are those of the engine's list with
\* from_timestamp <= timestamp <= to_timestamp, in the engine's order, without
\* the first offset of them and at most limit of the rest; an offset larger
\* than the number of matching payments gives the empty list.
C25_Pagination ==
    last.op = "list_payments" =>
        last.payments = Page(last.payment_list, last.from_ts, last.to_ts,
                             last.offset, last.limit)

---------------------------------------------------------------------------
(* Records and their expiry: claims C26, C27, under Spec *)

\* the tracker holds something under the identifier
Tracked(L, i) ==
    \/ i \in DOMAIN L.payment_statuses
    \/ i \in DOMAIN L.payment_errors
    \/ i \in DOMAIN L.payment_details
    \/ InList(i, L.paid)

\* C26: every identifier that has a tracked status, error, cached details
\* or paid membership has a last_updated timestamp, so that clear_old_data
\* can reach it.
C26_EveryRecordStamped ==
    \A i \in Ids : Tracked(listener, i) => i \in DOMAIN listener.payment_timestamps

\* C27: the paid list never holds an identifier twice.
C27_NoDuplicatePaid ==
    \A i \in Ids : Count(i, listener.paid) <= 1

---------------------------------------------------------------------------
(* After a failed restart: claim C28, under SpecRecovery *)

\* lines 250-263, the dependency of every endpoint: _payment_handler was
\* assigned at startup and is never None again, so the test of line 252
\* fails and the handler is returned as it is
get_payment_handler ==
    /\ pending = Idle
    /\ last' = [op |-> "get_payment_handler",
                usable |-> handler.instance # None /\ handler.listener # None]
    /\ UNCHANGED <<listener, handler, pending, now, watchdog, engine, callback, webhook>>

\* an iteration of the watchdog; one in which the engine accepts a connection
WatchdogIterates ==
    \E arrives \in BOOLEAN, reinit \in ReinitOutcomes :
        periodic_sync_check(arrives, reinit, TRUE, <<>>, <<None, None>>, "not configured")
WatchdogIteratesConnected ==
    \E arrives \in BOOLEAN :
        periodic_sync_check(arrives, <<"disconnected", "connected">>, TRUE, <<>>,
                            <<None, None>>, "not configured")

NextRecovery ==
    \/ WatchdogIterates
    \/ \E event \in WatchdogEvents : on_event(event)
    \/ get_payment_handler

\* the loop of periodic_sync_check iterates for ever, and the engine accepts
\* connections again and again
SpecRecovery ==
    /\ Init
    /\ [][NextRecovery]_vars
    /\ WF_vars(WatchdogIterates)
    /\ SF_vars(WatchdogIteratesConnected)

\* the watchdog's reconstruction has failed after a disconnect
TornDown ==
    /\ last.op = "periodic_sync_check"
    /\ last.branch = "reinitialization failed"
    /\ handler = Cleared

\* C28: after a failed reinitialization the handler eventually has a
\* listener and an engine instance again.
C28_Recovery ==
    TornDown ~> (handler.instance # None /\ handler.listener # None)

---------------------------------------------------------------------------
(* The sync flag: claim C29, under SpecSticky *)

NextSticky ==
    \/ \E t \in WaitTimeouts \ {0} : wait_begin("wait_for_sync", None, t)
    \/ wait_for_sync
    \/ \E event \in WatchdogEvents : on_event(event)
    \/ disconnect("disconnected")
    \/ PaymentHandler("connected")
    \/ \E arrives \in BOOLEAN, reinit \in ReinitOutcomes :
          periodic_sync_check(arrives, reinit, TRUE, <<>>, <<None, None>>,
                              "not configured")
    \/ Tick

SpecSticky == Init /\ [][NextSticky]_vars

\* C29: a sync flag that is true stays true in every step but a disconnect;
\* an iteration of the watchdog that finds it true resyncs at once or finds
\* the sync fresh, and leaves the counter at 0; with the flag true the
\* counter increases in no step but one that raises out of the iteration;
\* and a wait_for_sync whose loop is evaluated before its timeout returns
\* true from that evaluation.
C29_SyncSticky ==
    [][listener.synced =>
          /\ ~listener'.synced => last'.op = "disconnect"
          /\ (Iteration /\ pending' = pending) =>
                /\ listener'.synced
                /\ last'.branch \in {"resynced", "healthy"}
                /\ watchdog'.consecutive_sync_failures = 0
          /\ watchdog'.consecutive_sync_failures > watchdog.consecutive_sync_failures
                => last'.branch = "exception"
          /\ (pending.pc = "wait_for_sync" /\ wait_for_sync
                /\ now - pending.start_time < pending.timeout_seconds) =>
                /\ pending' = Idle
                /\ last'.ret = "True"]_vars

\* the watchdog has found the listener synced, and a wait_for_sync begun
\* at that clock value has returned true from its first evaluation
C29_Witness ==
    /\ last.op = "wait_for_sync"
    /\ last.ret = "True"
    /\ last.elapsed = 0
    /\ listener.synced
    /\ now > 0
    /\ watchdog = [WatchdogInit EXCEPT !.last_sync_time = now]

\* after four timeouts and a SYNCED event, an iteration has met a synced
\* listener and resynced at once
C29_WitnessResynced ==
    /\ last.op = "periodic_sync_check"
    /\ last.branch = "resynced"
    /\ last.failures = 4
    /\ last.sleep_time = 30
    /\ listener.synced
    /\ watchdog.consecutive_sync_failures = 0

---------------------------------------------------------------------------
(* /send_onchain: claim C30, under SpecOnchain *)

Addresses == {"", "a"}
OnchainAmounts == {NoInt, <<1000>>}
FeeRates == {NoInt, <<0>>, <<2>>}
\* what the engine does with prepare_pay_onchain and pay_onchain
OnchainOutcomes == {"ok", "prepare raises", "pay raises"}

\* lines 1035-1061 of src/nodeless.py: the value returned is the __dict__ of
\* the engine's PreparePayOnchainResponse, a dict
prepare_pay_onchain(H, amount_sat, drain, fee_rate_sat_per_vbyte, outcome) ==
    IF ~drain /\ amount_sat = NoInt
    THEN [ret |-> None, engine_calls |-> <<>>, raised |-> "ValueError"]
    ELSE IF fee_rate_sat_per_vbyte # NoInt /\ fee_rate_sat_per_vbyte[1] <= 0
    THEN [ret |-> None, engine_calls |-> <<>>, raised |-> "ValueError"]
    ELSE IF H.instance = None
    THEN [ret |-> None, engine_calls |-> <<>>, raised |-> "AttributeError"]
    ELSE IF outcome = "prepare raises"
    THEN [ret |-> None, engine_calls |-> <<"prepare_pay_onchain">>,
          raised |-> "Exception"]
    ELSE [ret |-> [type |-> "dict", of |-> "PreparePayOnchainResponse"],
          engine_calls |-> <<"prepare_pay_onchain">>, raised |-> None]

\* lines 1076-1101: isinstance(prepare_response, PreparePayOnchainResponse),
\* the address test, and the engine's pay_onchain
pay_onchain(H, address, prepare_response, outcome) ==
    IF prepare_response.type # "PreparePayOnchainResponse"
    THEN [engine_calls |-> <<>>, raised |-> "TypeError"]
    ELSE IF address = ""
    THEN [engine_calls |-> <<>>, raised |-> "ValueError"]
    ELSE IF H.instance = None
    THEN [engine_calls |-> <<>>, raised |-> "AttributeError"]
    ELSE IF outcome = "pay raises"
    THEN [engine_calls |-> <<"pay_onchain">>, raised |-> "Exception"]
    ELSE [engine_calls |-> <<"pay_onchain">>, raised |-> None]

\* lines 493-513 of src/fly/main.py: the calls that reach the engine and the
\* response
send_onchain_endpoint(H, address, amount_sat, drain, fee_rate_sat_per_vbyte, outcome) ==
    LET prepare == prepare_pay_onchain(H, amount_sat, drain, fee_rate_sat_per_vbyte,
                                       outcome)
    IN IF prepare.raised # None
       THEN [prepared |-> FALSE, engine_calls |-> prepare.engine_calls,
             status_code |-> 500, status |-> None, detail |-> prepare.raised]
       ELSE LET pay == pay_onchain(H, address, prepare.ret, outcome) IN
            IF pay.raised # None
            THEN [prepared |-> TRUE,
                  engine_calls |-> prepare.engine_calls \o pay.engine_calls,
                  status_code |-> 500, status |-> None, detail |-> pay.raised]
            ELSE [prepared |-> TRUE,
                  engine_calls |-> prepare.engine_calls \o pay.engine_calls,
                  status_code |-> 200, status |-> "initiated", detail |-> None]

send_onchain(address, amount_sat, drain, fee_rate_sat_per_vbyte, outcome) ==
    /\ pending = Idle
    /\ last' = [op |-> "send_onchain", address |-> address, amount_sat |-> amount_sat,
                drain |-> drain, fee_rate_sat_per_vbyte |-> fee_rate_sat_per_vbyte,
                outcome |-> outcome]
               @@ send_onchain_endpoint(handler, address, amount_sat, drain,
                                        fee_rate_sat_per_vbyte, outcome)
    /\ UNCHANGED <<listener, handler, pending, now, watchdog, engine, callback, webhook>>

NextOnchain ==
    \/ \E address \in Addresses, sat \in OnchainAmounts, drain \in BOOLEAN,
          fee \in FeeRates, o \in OnchainOutcomes :
          send_onchain(address, sat, drain, fee, o)
    \/ disconnect("disconnected")
    \/ PaymentHandler("connected")

SpecOnchain == Init /\ [][NextOnchain]_vars

\* C30: when the prepare step of a /send_onchain request succeeds, the
\* engine's pay_onchain is invoked exactly once, after the prepare, and the
\* response is "initiated" unless the engine's pay_onchain itself fails;
\* when the prepare step failed the engine's pay_onchain is not invoked.
C30_PrepareThenExecute ==
    last.op = "send_onchain" =>
        IF last.prepared
        THEN /\ last.address # "" =>
                  last.engine_calls = <<"prepare_pay_onchain", "pay_onchain">>
             /\ (last.address # "" /\ last.outcome = "ok") =>
                  (last.status_code = 200 /\ last.status = "initiated")
        ELSE ~InList("pay_onchain", last.engine_calls)
====
